---- MODULE Spec2Model ----
(***************************************************************************)
(* A model of the doremid identifier generator (src/doremid.go).           *)
(*                                                                         *)
(* A Go string is modelled as a sequence of one-character strings (its     *)
(* bytes; every byte the model uses is ASCII).  A Go int64 / int (64-bit   *)
(* build) is modelled in two ways: the values whose wrap-around matters    *)
(* (intPow, MaxCombinations, the count arithmetic of BatchGenerateIDs) are *)
(* int64 values with two's complement wrap-around arithmetic (Mul64,       *)
(* Add64, Sub64, Lt64); the codec's positions and digit values are plain   *)
(* integers, and the model only runs the codec on configurations whose     *)
(* int64 values are small enough to be plain integers (ToInt).             *)
(*                                                                         *)
(* Three specifications: Spec (one caller, every method, every input),     *)
(* PoolSpec (a second goroutine on the same generator and a second         *)
(* generator, small identifier spaces) and LiveSpec (the random-drawing    *)
(* calls under fair draws, small identifier spaces).                       *)
(***************************************************************************)
EXTENDS Integers, Sequences, FiniteSets, TLC

VARIABLES
    JustIntonationDigits,    \* Generator.JustIntonationDigits
    EqualTemperamentDigits,  \* Generator.EqualTemperamentDigits
    Separator,               \* Generator.Separator
    rand,                    \* Generator.rand: cursor of the random stream
    op,                      \* the last method called on the generator
    arg,                     \* its argument(s)
    ret,                     \* what it returned
    sample,                  \* the running randomSample call, or NoSample
    panic,                   \* the Go runtime panicked (the program is dead)
    otherRand,               \* rand of a second Generator made by New
    codec                    \* the last codec call of a second goroutine

vars == <<JustIntonationDigits, EqualTemperamentDigits, Separator, rand,
          op, arg, ret, sample, panic, otherRand, codec>>

(***************************************************************************)
(* Bounds of the model.                                                    *)
(***************************************************************************)
MaxJustDigits == 2       \* the codec runs with JustIntonationDigits <= this
MaxEqualDigits == 2      \* the codec runs with EqualTemperamentDigits <= this
MaxWideDigits == 18      \* MaxCombinations runs with digit counts <= this
MaxPosition == 600       \* positions tried are <= this, or lie around max
MaxIDLen == 5            \* identifiers tried as raw input have <= this length
MaxCount == 10           \* small batch counts tried
MaxBatch == 100          \* a large count is tried with start >= max - this
MaxSample == 2           \* rejection sampling is tried with count <= this
MaxDrawMax == 84         \* rejection sampling runs with max <= this
MaxOrderings == 7000     \* ... and with at most this many ordered samples
MaxShuffle == 7          \* the shuffle runs with max <= this
MaxNewIDSpace == 1008    \* NewID runs on spaces of at most this size
RandPeriod == 2          \* the random cursor is kept modulo this
MaxPoolSpace == 12       \* two goroutines, two generators: spaces <= this

(***************************************************************************)
(* int64 values, with Go's two's complement wrap-around.  A value in       *)
(* [-2^30, 2^30) is the one-element tuple <<n>> of that plain integer;     *)
(* every other value is the tuple of its WordBytes bytes, least            *)
(* significant first.  The arithmetic takes the plain route when both      *)
(* operands and the result are small and the byte route otherwise, so      *)
(* every value has exactly one representation.                             *)
(***************************************************************************)
WordBytes == 8
ByteBase == 2 ^ 8
SmallLimit == 2 ^ 30
HalfLimit == 2 ^ 15 - 1      \* |a|, |b| <= this: a * b is small

Small(a) == Len(a) = 1

RECURSIVE NatBytes(_, _)
NatBytes(n, k) ==
    IF k = 0 THEN <<>> ELSE <<n % ByteBase>> \o NatBytes(n \div ByteBase, k - 1)

RECURSIVE AddBytes(_, _, _, _)
AddBytes(a, b, k, carry) ==
    IF k > WordBytes THEN <<>>
    ELSE LET t == a[k] + b[k] + carry
         IN  <<t % ByteBase>> \o AddBytes(a, b, k + 1, t \div ByteBase)

NegBytes(a) ==
    AddBytes([k \in 1..WordBytes |-> ByteBase - 1 - a[k]],
             NatBytes(1, WordBytes), 1, 0)

RECURSIVE ColSum(_, _, _, _)
ColSum(a, b, k, i) ==
    IF i > k THEN 0 ELSE a[i] * b[k + 1 - i] + ColSum(a, b, k, i + 1)

RECURSIVE MulBytes(_, _, _, _)
MulBytes(a, b, k, carry) ==
    IF k > WordBytes THEN <<>>
    ELSE LET t == ColSum(a, b, k, 1) + carry
         IN  <<t % ByteBase>> \o MulBytes(a, b, k + 1, t \div ByteBase)

IsNegBytes(a) == a[WordBytes] >= ByteBase \div 2

\* the bytes of a value
Bytes(a) ==
    IF Small(a)
    THEN IF a[1] >= 0 THEN NatBytes(a[1], WordBytes)
         ELSE NegBytes(NatBytes(-a[1], WordBytes))
    ELSE a

\* the value of eight bytes
Norm(w) ==
    IF IsNegBytes(w)
    THEN IF (\A k \in 5..WordBytes : w[k] = ByteBase - 1) /\ w[4] >= 192
         THEN <<w[1] + 256 * w[2] + 65536 * w[3] + 16777216 * (w[4] - ByteBase)>>
         ELSE w
    ELSE IF (\A k \in 5..WordBytes : w[k] = 0) /\ w[4] < 64
         THEN <<w[1] + 256 * w[2] + 65536 * w[3] + 16777216 * w[4]>>
         ELSE w

InSmall(n) == -SmallLimit <= n /\ n < SmallLimit

Add64(a, b) ==
    IF Small(a) /\ Small(b) /\ InSmall(a[1] + b[1]) THEN <<a[1] + b[1]>>
    ELSE Norm(AddBytes(Bytes(a), Bytes(b), 1, 0))

Sub64(a, b) ==
    IF Small(a) /\ Small(b) /\ InSmall(a[1] - b[1]) THEN <<a[1] - b[1]>>
    ELSE Norm(AddBytes(Bytes(a), NegBytes(Bytes(b)), 1, 0))

Mul64(a, b) ==
    IF /\ Small(a) /\ Small(b)
       /\ -HalfLimit <= a[1] /\ a[1] <= HalfLimit
       /\ -HalfLimit <= b[1] /\ b[1] <= HalfLimit
    THEN <<a[1] * b[1]>>
    ELSE Norm(MulBytes(Bytes(a), Bytes(b), 1, 0))

IsNeg64(a) == IF Small(a) THEN a[1] < 0 ELSE IsNegBytes(a)

RECURSIVE ULt(_, _, _)
ULt(a, b, k) ==
    IF k = 0 THEN FALSE
    ELSE IF a[k] # b[k] THEN a[k] < b[k]
    ELSE ULt(a, b, k - 1)

\* signed comparison of int64
Lt64(a, b) ==
    IF Small(a) /\ Small(b) THEN a[1] < b[1]
    ELSE IF IsNeg64(a) # IsNeg64(b) THEN IsNeg64(a)
    ELSE ULt(Bytes(a), Bytes(b), WordBytes)

Le64(a, b) == ~Lt64(b, a)

\* the int64 of a plain integer of the model (all of them are small)
FromInt(n) == <<n>>

\* the plain integer of a small value
ToInt(a) == a[1]

Zero64 == FromInt(0)
One64 == FromInt(1)
MaxInt64 == [k \in 1..WordBytes |-> IF k = WordBytes THEN 127 ELSE 255]

(***************************************************************************)
(* Strings.                                                                *)
(***************************************************************************)
SubStr(s, from, to) == [k \in 1..(to - from + 1) |-> s[from + k - 1]]

RECURSIVE Concat(_)
Concat(ss) == IF ss = <<>> THEN <<>> ELSE Head(ss) \o Concat(Tail(ss))

\* strings.Index: the 1-based place of the first sep in s, 0 when absent
RECURSIVE IndexFrom(_, _, _)
IndexFrom(s, sep, k) ==
    IF k + Len(sep) - 1 > Len(s) THEN 0
    ELSE IF SubStr(s, k, k + Len(sep) - 1) = sep THEN k
    ELSE IndexFrom(s, sep, k + 1)

RECURSIVE genSplit(_, _)
genSplit(s, sep) ==
    LET m == IndexFrom(s, sep, 1)
    IN  IF m = 0 THEN <<s>>
        ELSE <<SubStr(s, 1, m - 1)>>
                 \o genSplit(SubStr(s, m + Len(sep), Len(s)), sep)

\* strings.Split(s, sep): an empty sep explodes s into its characters
Split(s, sep) ==
    IF sep = <<>> THEN [k \in 1..Len(s) |-> <<s[k]>>] ELSE genSplit(s, sep)

(***************************************************************************)
(* The generator's tables (New).                                           *)
(***************************************************************************)
justIntonationBytes ==
    << <<"d", "o">>, <<"r", "e">>, <<"m", "i">>, <<"f", "a">>,
       <<"s", "o">>, <<"l", "a">>, <<"t", "i">> >>

equalTemperamentBytes ==
    <<"0", "1", "2", "3", "4", "5", "6", "7", "8", "9", "a", "b">>

justIntonationLen == Len(justIntonationBytes)
equalTemperamentLen == Len(equalTemperamentBytes)

\* the lookup maps, with the found flag of a Go map read
justIntonationMap(twoChar) ==
    IF \E i \in 1..justIntonationLen : justIntonationBytes[i] = twoChar
    THEN [found |-> TRUE,
          index |-> (CHOOSE i \in 1..justIntonationLen :
                         justIntonationBytes[i] = twoChar) - 1]
    ELSE [found |-> FALSE, index |-> 0]

equalTemperamentMap(char) ==
    IF \E i \in 1..equalTemperamentLen : equalTemperamentBytes[i] = char
    THEN [found |-> TRUE,
          index |-> (CHOOSE i \in 1..equalTemperamentLen :
                         equalTemperamentBytes[i] = char) - 1]
    ELSE [found |-> FALSE, index |-> 0]

(***************************************************************************)
(* intPow and MaxCombinations.                                             *)
(***************************************************************************)
RECURSIVE intPowLoop(_, _, _)
intPowLoop(result, base, exp) ==
    IF exp > 0
    THEN intPowLoop(IF exp % 2 = 1 THEN Mul64(result, base) ELSE result,
                    Mul64(base, base), exp \div 2)
    ELSE result

intPow(base, exp) == intPowLoop(One64, FromInt(base), exp)

MaxCombinations ==
    LET justMax == intPow(justIntonationLen, JustIntonationDigits)
        equalMax == intPow(equalTemperamentLen, EqualTemperamentDigits)
    IN  Mul64(justMax, equalMax)

(***************************************************************************)
(* PositionToID.                                                           *)
(***************************************************************************)
\* the loop  for i := n-1; i >= 0; i-- { digits[i] = temp % len; temp /= len }
\* digitsLoop without  temp /= len
RECURSIVE digitsLoopKeepsTemp(_, _, _, _)
digitsLoopKeepsTemp(digits, temp, len, i) ==
    IF i >= 1
    THEN digitsLoopKeepsTemp([digits EXCEPT ![i] = temp % len], temp, len, i - 1)
    ELSE digits

\* digitsLoop filling the digits least significant first
RECURSIVE digitsLoopReversed(_, _, _, _)
digitsLoopReversed(digits, temp, len, i) ==
    IF i >= 1
    THEN digitsLoopReversed([digits EXCEPT ![Len(digits) - i + 1] = temp % len],
                            temp \div len, len, i - 1)
    ELSE digits

RECURSIVE digitsLoop(_, _, _, _)
digitsLoop(digits, temp, len, i) ==
    IF i >= 1
    THEN digitsLoop([digits EXCEPT ![i] = temp % len], temp \div len, len, i - 1)
    ELSE digits

\* PositionToID after its guard: the split, the two digit loops, the rendering
positionToIDBody(position) ==
    LET equalMax == ToInt(intPow(equalTemperamentLen, EqualTemperamentDigits))
        justValue == position \div equalMax
        equalValue == position % equalMax
        justDigits == digitsLoop([k \in 1..JustIntonationDigits |-> 0],
                                 justValue, justIntonationLen,
                                 JustIntonationDigits)
        equalDigits == digitsLoop([k \in 1..EqualTemperamentDigits |-> 0],
                                  equalValue, equalTemperamentLen,
                                  EqualTemperamentDigits)
    IN  Concat([k \in 1..JustIntonationDigits |->
                    justIntonationBytes[justDigits[k] + 1]])
          \o Separator
          \o [k \in 1..EqualTemperamentDigits |->
                    equalTemperamentBytes[equalDigits[k] + 1]]

\* PositionToID with the guard  position <= 0
PositionToIDNonPositive(position) ==
    IF position <= 0 THEN <<>> ELSE positionToIDBody(position)

PositionToID(position) ==
    IF position < 0 THEN <<>> ELSE positionToIDBody(position)

(***************************************************************************)
(* IDToPosition.                                                           *)
(***************************************************************************)
\* the note loop: -1 on a lookup miss, else the accumulated value
\* the note loop reading the map without its found flag (a miss reads 0)
RECURSIVE justLoopIgnoresMiss(_, _, _)
justLoopIgnoresMiss(justPart, i, justValue) ==
    IF i < Len(justPart)
    THEN IF i + 1 >= Len(justPart) THEN -1
         ELSE LET m == justIntonationMap(SubStr(justPart, i + 1, i + 2))
              IN  justLoopIgnoresMiss(justPart, i + 2,
                                      justValue * justIntonationLen + m.index)
    ELSE justValue

RECURSIVE justLoop(_, _, _)
justLoop(justPart, i, justValue) ==
    IF i < Len(justPart)
    THEN IF i + 1 >= Len(justPart) THEN -1
         ELSE LET m == justIntonationMap(SubStr(justPart, i + 1, i + 2))
              IN  IF m.found
                  THEN justLoop(justPart, i + 2,
                                justValue * justIntonationLen + m.index)
                  ELSE -1
    ELSE justValue

\* the pitch loop reading the map without its found flag (a miss reads 0)
RECURSIVE equalLoopIgnoresMiss(_, _, _)
equalLoopIgnoresMiss(equalPart, i, equalValue) ==
    IF i <= Len(equalPart)
    THEN LET m == equalTemperamentMap(equalPart[i])
         IN  equalLoopIgnoresMiss(equalPart, i + 1,
                                  equalValue * equalTemperamentLen + m.index)
    ELSE equalValue

RECURSIVE equalLoop(_, _, _)
equalLoop(equalPart, i, equalValue) ==
    IF i <= Len(equalPart)
    THEN LET m == equalTemperamentMap(equalPart[i])
         IN  IF m.found
             THEN equalLoop(equalPart, i + 1,
                            equalValue * equalTemperamentLen + m.index)
             ELSE -1
    ELSE equalValue

IDToPosition(id) ==
    LET parts == Split(id, Separator)
    IN  IF Len(parts) # 2 THEN -1
        ELSE
          LET justPart == parts[1]
              equalPart == parts[2]
          IN  IF Len(justPart) # JustIntonationDigits * 2
                 \/ Len(equalPart) # EqualTemperamentDigits
              THEN -1
              ELSE
                LET justValue == justLoop(justPart, 0, 0)
                    equalValue == equalLoop(equalPart, 1, 0)
                IN  IF justValue = -1 THEN -1
                    ELSE IF equalValue = -1 THEN -1
                    ELSE justValue
                           * ToInt(intPow(equalTemperamentLen,
                                          EqualTemperamentDigits))
                           + equalValue

(***************************************************************************)
(* BatchGenerateIDs.  The result is [panic, ids]: make([]string, count)    *)
(* panics in the Go runtime (makeslice: len out of range) when count is    *)
(* above MaxSliceLen.                                                      *)
(***************************************************************************)
\* maxAlloc / sizeof(string) = 2^48 / 16 on a 64-bit build
MaxSliceLen == [k \in 1..WordBytes |-> IF k = 6 THEN 16 ELSE 0]

\* BatchGenerateIDs without the check  startPosition < 0
BatchGenerateIDsAnyStart(count, startPosition) ==
    IF Le64(count, Zero64)
    THEN [panic |-> FALSE, ids |-> <<>>]
    ELSE
      LET maxCombinations == MaxCombinations
      IN  IF Le64(maxCombinations, startPosition)
          THEN [panic |-> FALSE, ids |-> <<>>]
          ELSE
            LET limited ==
                  IF Lt64(maxCombinations, Add64(startPosition, count))
                  THEN Sub64(maxCombinations, startPosition)
                  ELSE count
            IN  IF Le64(limited, Zero64)
                THEN [panic |-> FALSE, ids |-> <<>>]
                ELSE IF Lt64(MaxSliceLen, limited)
                THEN [panic |-> TRUE, ids |-> <<>>]
                ELSE [panic |-> FALSE,
                      ids |-> [i \in 1..ToInt(limited) |->
                                 PositionToID(ToInt(startPosition) + i - 1)]]

BatchGenerateIDs(count, startPosition) ==
    IF Le64(count, Zero64) \/ Lt64(startPosition, Zero64)
    THEN [panic |-> FALSE, ids |-> <<>>]
    ELSE
      LET maxCombinations == MaxCombinations
      IN  IF Le64(maxCombinations, startPosition)
          THEN [panic |-> FALSE, ids |-> <<>>]
          ELSE
            LET limited ==
                  IF Lt64(maxCombinations, Add64(startPosition, count))
                  THEN Sub64(maxCombinations, startPosition)
                  ELSE count
            IN  IF Le64(limited, Zero64)
                THEN [panic |-> FALSE, ids |-> <<>>]
                ELSE IF Lt64(MaxSliceLen, limited)
                THEN [panic |-> TRUE, ids |-> <<>>]
                ELSE [panic |-> FALSE,
                      ids |-> [i \in 1..ToInt(limited) |->
                                 PositionToID(ToInt(startPosition) + i - 1)]]

(***************************************************************************)
(* The inputs the caller tries.                                            *)
(***************************************************************************)
Separators == {<<>>, <<"-">>, <<"0">>}

Chars == {"d", "o", "x", "0", "-"}

Range(f) == {f[k] : k \in DOMAIN f}

\* the configuration is one the codec is run on
CodecConfig ==
    /\ JustIntonationDigits <= MaxJustDigits
    /\ EqualTemperamentDigits <= MaxEqualDigits

\* MaxCombinations as a plain integer (CodecConfig makes it fit)
maxInt == ToInt(MaxCombinations)

Positions ==
    LET max == maxInt
    IN  {p \in -2..MaxPosition : p <= max + 2} \cup {max + k : k \in -2..2}

IDStrings == UNION {[1..n -> Chars] : n \in 0..MaxIDLen}

Counts ==
    LET max == maxInt
    IN  {FromInt(n) : n \in -1..MaxCount}
            \cup {FromInt(max + k) : k \in 0..1}
            \cup {Sub64(MaxInt64, FromInt(k)) : k \in 0..1}

StartPositions ==
    LET max == maxInt
    IN  {FromInt(n) : n \in {-1, 0, 1, 2} \cup {max - k : k \in -1..5}}

\* a large count is tried only near the end of the space
BatchPair(count, startPosition) ==
    \/ Le64(count, FromInt(MaxCount))
    \/ Lt64(startPosition, Zero64)
    \/ Le64(FromInt(maxInt - MaxBatch), startPosition)

\* the number of ordered samples of count positions out of max
RECURSIVE Orderings(_, _)
Orderings(max, count) ==
    IF count <= 0 THEN 1 ELSE (max - count + 1) * Orderings(max, count - 1)

RandomCounts ==
    LET max == maxInt
    IN  (-1..MaxSample) \cup {max + 1}
            \cup (IF max <= MaxShuffle THEN {max} ELSE {})

\* the generator is fresh: no method has been called on it yet
Fresh == op = "New"

\* no call is running and the program is alive
Idle == sample.pc = "idle" /\ ~panic

NoSample ==
    [pc |-> "idle", max |-> 0, count |-> 0, i |-> 0,
     positions |-> <<>>, used |-> {}]

\* arg of a call without arguments
NoArg == 0

\* the second goroutine has made no call yet
NoCodec ==
    [op |-> "none", arg |-> <<>>, pc |-> "idle", local |-> <<>>,
     ret |-> <<>>, rand0 |-> 0, overlapped |-> FALSE]

(***************************************************************************)
(* New: the state after construction.                                      *)
(***************************************************************************)
Init ==
    /\ JustIntonationDigits \in 0..MaxWideDigits
    /\ EqualTemperamentDigits \in 0..MaxWideDigits
    /\ Separator \in Separators
    /\ rand = 0
    /\ op = "New"
    /\ arg = NoArg
    /\ ret = <<>>
    /\ sample = NoSample
    /\ panic = FALSE
    /\ otherRand = 0
    /\ codec = NoCodec

config == <<JustIntonationDigits, EqualTemperamentDigits, Separator>>

\* what belongs to the second goroutine and the second generator
pool == <<otherRand, codec>>

(***************************************************************************)
(* The method calls.  A fresh generator is called with every input; after  *)
(* that the caller feeds results back (example/main.go).                   *)
(***************************************************************************)
MaxCombinationsCall ==
    /\ Idle /\ Fresh
    /\ op' = "MaxCombinations"
    /\ arg' = NoArg
    /\ ret' = MaxCombinations
    /\ UNCHANGED <<config, pool, rand, sample, panic>>

\* (the variant that draws from g.rand)
PositionToIDCallDraws ==
    /\ Idle /\ CodecConfig
    /\ \E position \in (IF Fresh THEN Positions
                         ELSE IF op = "IDToPosition" THEN {ret} ELSE {}) :
          /\ op' = "PositionToID"
          /\ arg' = position
          /\ ret' = PositionToID(position)
    /\ rand' = (rand + 1) % RandPeriod
    /\ UNCHANGED <<config, pool, sample, panic>>

PositionToIDCall ==
    /\ Idle /\ CodecConfig
    /\ \E position \in (IF Fresh THEN Positions
                         ELSE IF op = "IDToPosition" THEN {ret} ELSE {}) :
          /\ op' = "PositionToID"
          /\ arg' = position
          /\ ret' = PositionToID(position)
    /\ UNCHANGED <<config, pool, rand, sample, panic>>

IDToPositionCall ==
    /\ Idle /\ CodecConfig
    /\ \E id \in (IF Fresh THEN IDStrings
                   ELSE IF op \in {"PositionToID", "NewID"} THEN {ret}
                   ELSE IF op \in {"BatchGenerateIDs",
                                   "BatchGenerateRandomIDs"}
                        THEN Range(ret)
                   ELSE {}) :
          /\ op' = "IDToPosition"
          /\ arg' = id
          /\ ret' = IDToPosition(id)
    /\ UNCHANGED <<config, pool, rand, sample, panic>>

BatchGenerateIDsCall ==
    /\ Idle /\ Fresh /\ CodecConfig
    /\ \E count \in Counts, startPosition \in StartPositions :
          /\ BatchPair(count, startPosition)
          /\ LET r == BatchGenerateIDs(count, startPosition)
             IN  /\ op' = "BatchGenerateIDs"
                 /\ arg' = <<count, startPosition>>
                 /\ ret' = r.ids
                 /\ panic' = r.panic
    /\ UNCHANGED <<config, pool, rand, sample>>

\* (the variant that never appends the separator)
NewIDNoSeparator(just, equal) ==
    Concat([k \in 1..JustIntonationDigits |->
               justIntonationBytes[just[k] + 1]])
      \o [k \in 1..EqualTemperamentDigits |->
               equalTemperamentBytes[equal[k] + 1]]

\* NewID, given the values just[k] and equal[k] that g.rand.Intn returns
NewID(just, equal) ==
    Concat([k \in 1..JustIntonationDigits |->
               justIntonationBytes[just[k] + 1]])
      \o Separator
      \o [k \in 1..EqualTemperamentDigits |->
               equalTemperamentBytes[equal[k] + 1]]

NewIDCall ==
    /\ Idle /\ Fresh /\ CodecConfig
    /\ maxInt <= MaxNewIDSpace
    /\ \E just \in [1..JustIntonationDigits -> 0..(justIntonationLen - 1)],
          equal \in [1..EqualTemperamentDigits -> 0..(equalTemperamentLen - 1)] :
          /\ op' = "NewID"
          /\ arg' = NoArg
          /\ ret' = NewID(just, equal)
    /\ rand' = (rand + JustIntonationDigits + EqualTemperamentDigits)
                  % RandPeriod
    /\ UNCHANGED <<config, pool, sample, panic>>

(***************************************************************************)
(* BatchGenerateRandomIDs: the call, the steps of randomSample's loops,    *)
(* and the return.                                                         *)
(***************************************************************************)
BatchGenerateRandomIDsCall ==
    /\ Idle /\ Fresh /\ CodecConfig
    /\ \E count \in RandomCounts :
          /\ op' = "BatchGenerateRandomIDs"
          /\ arg' = count
          /\ ret' = <<>>
          /\ IF count <= 0 \/ count > maxInt
             THEN sample' = NoSample
             ELSE \* randomSample(int(maxCombinations), int(count))
                  IF count >= maxInt
                  THEN /\ maxInt <= MaxShuffle
                       /\ sample' = [pc |-> "shuffle", max |-> maxInt,
                                     count |-> count, i |-> maxInt - 1,
                                     positions |-> [k \in 1..maxInt |-> k - 1],
                                     used |-> {}]
                  ELSE /\ maxInt <= MaxDrawMax
                       /\ Orderings(maxInt, count) <= MaxOrderings
                       /\ sample' = [pc |-> "draw", max |-> maxInt,
                                     count |-> count, i |-> 0,
                                     positions |-> <<>>, used |-> {}]
    /\ UNCHANGED <<config, pool, rand, panic>>

\* (the variant that copies positions[j] without swapping)
swapCopies(positions, i, j) ==
    [positions EXCEPT ![i + 1] = positions[j + 1]]

\* positions[i], positions[j] = positions[j], positions[i]
swap(positions, i, j) ==
    [positions EXCEPT ![i + 1] = positions[j + 1],
                      ![j + 1] = positions[i + 1]]

\* one iteration of the Fisher-Yates loop
ShuffleStep ==
    /\ sample.pc = "shuffle" /\ sample.i > 0
    /\ \E j \in 0..sample.i :
          sample' = [sample EXCEPT
                       !.positions = swap(sample.positions, sample.i, j),
                       !.i = sample.i - 1]
    /\ rand' = (rand + 1) % RandPeriod
    /\ UNCHANGED <<config, pool, op, arg, ret, panic>>

\* (the variant that keeps no drawn position)
keepNothing(s, pos) == s

\* (the variant that never marks a position as used)
keepUnmarked(s, pos) ==
    IF pos \notin s.used
    THEN [s EXCEPT !.positions = Append(s.positions, pos)]
    ELSE s

\* the body of the rejection loop: keep pos unless it is used already
keep(s, pos) ==
    IF pos \notin s.used
    THEN [s EXCEPT !.used = s.used \cup {pos},
                   !.positions = Append(s.positions, pos)]
    ELSE s

\* one iteration of the rejection loop, g.rand.Intn(max) returning pos
Draw(pos) ==
    /\ sample.pc = "draw" /\ Len(sample.positions) < sample.count
    /\ pos \in 0..(sample.max - 1)
    /\ sample' = keep(sample, pos)
    /\ rand' = (rand + 1) % RandPeriod
    /\ UNCHANGED <<config, pool, op, arg, ret, panic>>

DrawStep == \E pos \in 0..(MaxDrawMax - 1) : Draw(pos)

\* randomSample returns and the positions are converted
SampleReturn ==
    /\ \/ sample.pc = "shuffle" /\ sample.i <= 0
       \/ sample.pc = "draw" /\ Len(sample.positions) >= sample.count
    /\ LET positions == SubStr(sample.positions, 1,
                                IF sample.pc = "shuffle" THEN sample.count
                                ELSE Len(sample.positions))
       IN  ret' = [k \in 1..Len(positions) |-> PositionToID(positions[k])]
    /\ sample' = NoSample
    /\ UNCHANGED <<config, pool, rand, op, arg, panic>>

Next ==
    \/ MaxCombinationsCall
    \/ PositionToIDCall
    \/ IDToPositionCall
    \/ BatchGenerateIDsCall
    \/ NewIDCall
    \/ BatchGenerateRandomIDsCall
    \/ ShuffleStep
    \/ DrawStep
    \/ SampleReturn

Spec == Init /\ [][Next]_vars

(***************************************************************************)
(* Two goroutines on one generator, and a second generator.  The first     *)
(* goroutine makes the random-drawing calls; the second one runs codec     *)
(* calls on the same generator, each in two steps between which the first  *)
(* goroutine may run (codec.overlapped: the cursor moved meanwhile), and   *)
(* somebody draws from a second generator, made by New with the same       *)
(* Config.                                                                 *)
(***************************************************************************)
PoolInit ==
    /\ Init
    /\ CodecConfig
    /\ maxInt <= MaxPoolSpace

\* the second goroutine is not inside a codec call
CodecIdle == ~panic /\ codec.pc = "idle"

ConcurrentPositions == {1}

\* PositionToID up to the melody part (lines 285-310)
ConcurrentPositionToIDBegin ==
    /\ CodecIdle /\ otherRand = 0
    /\ \E position \in ConcurrentPositions :
          LET equalMax == ToInt(intPow(equalTemperamentLen,
                                       EqualTemperamentDigits))
              justDigits == digitsLoop([k \in 1..JustIntonationDigits |-> 0],
                                       position \div equalMax,
                                       justIntonationLen,
                                       JustIntonationDigits)
          IN  codec' = [op |-> "PositionToID", arg |-> position,
                        pc |-> "separator",
                        local |-> [equalValue |-> position % equalMax,
                                   result |->
                                     Concat([k \in 1..JustIntonationDigits |->
                                       justIntonationBytes[justDigits[k] + 1]])],
                        ret |-> <<>>, rand0 |-> rand, overlapped |-> FALSE]
    /\ UNCHANGED <<config, rand, op, arg, ret, sample, panic, otherRand>>

\* (the variant that keeps equalValue where the draws of g.rand reach it)
ConcurrentPositionToIDEndShared ==
    /\ ~panic
    /\ codec.op = "PositionToID" /\ codec.pc = "separator"
    /\ LET equalDigits == digitsLoop([k \in 1..EqualTemperamentDigits |-> 0],
                                     codec.local.equalValue + rand,
                                     equalTemperamentLen,
                                     EqualTemperamentDigits)
       IN  codec' = [codec EXCEPT
                       !.pc = "idle",
                       !.local = <<>>,
                       !.ret = codec.local.result \o Separator
                                 \o [k \in 1..EqualTemperamentDigits |->
                                       equalTemperamentBytes[equalDigits[k] + 1]],
                       !.overlapped = (rand # codec.rand0)]
    /\ UNCHANGED <<config, rand, op, arg, ret, sample, panic, otherRand>>

\* PositionToID from the separator to its return (lines 312-327)
ConcurrentPositionToIDEnd ==
    /\ ~panic
    /\ codec.op = "PositionToID" /\ codec.pc = "separator"
    /\ LET equalDigits == digitsLoop([k \in 1..EqualTemperamentDigits |-> 0],
                                     codec.local.equalValue,
                                     equalTemperamentLen,
                                     EqualTemperamentDigits)
       IN  codec' = [codec EXCEPT
                       !.pc = "idle",
                       !.local = <<>>,
                       !.ret = codec.local.result \o Separator
                                 \o [k \in 1..EqualTemperamentDigits |->
                                       equalTemperamentBytes[equalDigits[k] + 1]],
                       !.overlapped = (rand # codec.rand0)]
    /\ UNCHANGED <<config, rand, op, arg, ret, sample, panic, otherRand>>

\* IDToPosition up to its length checks (lines 234-246), on the identifier
\* the goroutine's PositionToID call returned
ConcurrentIDToPositionBegin ==
    /\ CodecIdle
    /\ codec.op = "PositionToID"
    /\ LET id == codec.ret
           parts == Split(id, Separator)
           wrong == \/ Len(parts) # 2
                    \/ Len(parts[1]) # JustIntonationDigits * 2
                    \/ Len(parts[2]) # EqualTemperamentDigits
       IN  codec' = [op |-> "IDToPosition", arg |-> id,
                     pc |-> IF wrong THEN "idle" ELSE "loops",
                     local |-> IF wrong THEN <<>> ELSE parts,
                     ret |-> IF wrong THEN -1 ELSE 0,
                     rand0 |-> rand, overlapped |-> FALSE]
    /\ UNCHANGED <<config, rand, op, arg, ret, sample, panic, otherRand>>

\* IDToPosition from its loops to its return (lines 248-273)
ConcurrentIDToPositionEnd ==
    /\ ~panic
    /\ codec.op = "IDToPosition" /\ codec.pc = "loops"
    /\ LET justValue == justLoop(codec.local[1], 0, 0)
           equalValue == equalLoop(codec.local[2], 1, 0)
       IN  codec' = [codec EXCEPT
                       !.pc = "idle",
                       !.local = <<>>,
                       !.ret = IF justValue = -1 THEN -1
                               ELSE IF equalValue = -1 THEN -1
                               ELSE justValue
                                      * ToInt(intPow(equalTemperamentLen,
                                                     EqualTemperamentDigits))
                                      + equalValue,
                       !.overlapped = (rand # codec.rand0)]
    /\ UNCHANGED <<config, rand, op, arg, ret, sample, panic, otherRand>>

\* (the variant in which both generators draw from one stream)
OtherNewIDCallShared ==
    /\ ~panic /\ codec.op = "none"
    /\ otherRand' = (otherRand + JustIntonationDigits
                        + EqualTemperamentDigits) % RandPeriod
    /\ rand' = (rand + JustIntonationDigits
                   + EqualTemperamentDigits) % RandPeriod
    /\ UNCHANGED <<config, op, arg, ret, sample, panic, codec>>

\* NewID on the second generator (its result is dropped); the model runs
\* either the second generator or the second goroutine
OtherNewIDCall ==
    /\ ~panic /\ codec.op = "none"
    /\ otherRand' = (otherRand + JustIntonationDigits
                        + EqualTemperamentDigits) % RandPeriod
    /\ UNCHANGED <<config, rand, op, arg, ret, sample, panic, codec>>

RandomNext ==
    \/ NewIDCall
    \/ BatchGenerateRandomIDsCall
    \/ ShuffleStep
    \/ DrawStep
    \/ SampleReturn

PoolNext ==
    \/ RandomNext
    \/ ConcurrentPositionToIDBegin
    \/ ConcurrentPositionToIDEnd
    \/ ConcurrentIDToPositionBegin
    \/ ConcurrentIDToPositionEnd
    \/ OtherNewIDCall

PoolSpec == PoolInit /\ [][PoolNext]_vars

(***************************************************************************)
(* The random-drawing calls under fair draws: a loop that can step does    *)
(* step, and g.rand.Intn(max) keeps returning every value of [0, max).     *)
(***************************************************************************)
\* what a step of randomSample changes
drawn == <<rand, sample>>

FairDraws ==
    /\ WF_drawn(ShuffleStep)
    /\ WF_drawn(SampleReturn)
    /\ \A pos \in 0..(MaxPoolSpace - 1) : WF_drawn(Draw(pos))

LiveSpec == PoolInit /\ [][RandomNext]_vars /\ FairDraws

(***************************************************************************)
(* Properties.                                                             *)
(***************************************************************************)
DigitsAtLeastOne == JustIntonationDigits >= 1 /\ EqualTemperamentDigits >= 1

\* p is a position of the identifier space
InRange(p) == 0 <= p /\ p < maxInt

\* PositionToID has just returned the identifier of an in-range position
Encoded == op = "PositionToID" /\ InRange(arg)

\* C1 (as claimed): round trip.  For every configuration with digit counts
\* >= 1 and any separator, decoding the identifier of an in-range position
\* gives the position back: IDToPosition(PositionToID(p)) = p.
C1_RoundTrip ==
    (Encoded /\ DigitsAtLeastOne) => IDToPosition(ret) = arg

\* C2 (as claimed): with the empty separator every identifier PositionToID
\* produces for an in-range position is recoverable: IDToPosition returns
\* the position, never -1.
C2_EmptySeparatorRecoverable ==
    (Encoded /\ DigitsAtLeastOne /\ Separator = <<>>)
        => (IDToPosition(ret) # -1 /\ IDToPosition(ret) = arg)

\* C3: PositionToID is injective on the identifier space: no other in-range
\* position has the identifier PositionToID has just returned (every pair of
\* positions is compared once, when the larger one is encoded).
C3_Injective ==
    Encoded =>
        \A q \in Positions :
            (0 <= q /\ q < arg) => PositionToID(q) # ret

\* C3's case: an in-range position was encoded, in a space with two-digit
\* segments, and other in-range positions exist
C3_Witness ==
    /\ Encoded /\ arg = 85
    /\ JustIntonationDigits = 2 /\ EqualTemperamentDigits = 2
    /\ ret = <<"d", "o", "d", "o">> \o Separator \o <<"7", "1">>

\* Natural numbers of any size, as byte sequences, least significant first:
\* n * k + carry for a small k
RECURSIVE ScaleNat(_, _, _)
ScaleNat(n, k, carry) ==
    IF n = <<>>
    THEN IF carry = 0 THEN <<>>
         ELSE <<carry % ByteBase>> \o ScaleNat(<<>>, k, carry \div ByteBase)
    ELSE LET t == Head(n) * k + carry
         IN  <<t % ByteBase>> \o ScaleNat(Tail(n), k, t \div ByteBase)

\* n * k^e
RECURSIVE TimesPower(_, _, _)
TimesPower(n, k, e) ==
    IF e = 0 THEN n ELSE TimesPower(ScaleNat(n, k, 0), k, e - 1)

\* 7^JustIntonationDigits * 12^EqualTemperamentDigits, exactly
ExactCombinations ==
    TimesPower(TimesPower(<<1>>, 7, JustIntonationDigits),
               12, EqualTemperamentDigits)

\* the int64 v is the natural number n
IsNatural(v, n) ==
    LET w == Bytes(v)
        last == IF Len(n) > WordBytes THEN Len(n) ELSE WordBytes
    IN  /\ ~IsNegBytes(w)
        /\ \A k \in 1..last :
              (IF k <= WordBytes THEN w[k] ELSE 0)
                  = (IF k <= Len(n) THEN n[k] ELSE 0)

\* C4 (as claimed): MaxCombinations returns exactly 7^melodyDigits x
\* 12^pitchDigits for any digit configuration, without overflow (84 for
\* (1,1), 7056 for (2,2), 597445632 for (4,5)).
C4_MaxCombinationsExact ==
    (op = "MaxCombinations" /\ DigitsAtLeastOne) =>
        /\ IsNatural(ret, ExactCombinations)
        /\ (JustIntonationDigits = 1 /\ EqualTemperamentDigits = 1)
              => ret = FromInt(84)
        /\ (JustIntonationDigits = 2 /\ EqualTemperamentDigits = 2)
              => ret = FromInt(7056)
        /\ (JustIntonationDigits = 4 /\ EqualTemperamentDigits = 5)
              => ret = FromInt(597445632)

NoteNames ==
    << <<"d", "o">>, <<"r", "e">>, <<"m", "i">>, <<"f", "a">>,
       <<"s", "o">>, <<"l", "a">>, <<"t", "i">> >>

PitchSymbols == <<"0", "1", "2", "3", "4", "5", "6", "7", "8", "9", "a", "b">>

\* the mixed-radix rendering of position p, digit by digit in closed form
MixedRadix(p) ==
    LET pitchMax == 12 ^ EqualTemperamentDigits
        melodyValue == p \div pitchMax
        pitchValue == p % pitchMax
    IN  Concat([k \in 1..JustIntonationDigits |->
                  NoteNames[((melodyValue
                                \div (7 ^ (JustIntonationDigits - k))) % 7) + 1]])
          \o Separator
          \o [k \in 1..EqualTemperamentDigits |->
                  PitchSymbols[((pitchValue
                                   \div (12 ^ (EqualTemperamentDigits - k)))
                                  % 12) + 1]]

\* C5: for every in-range position p, PositionToID(p) is the mixed-radix
\* rendering of p: the base-7 digits of p div 12^pitchDigits as note names,
\* most significant first, the separator, the base-12 digits of
\* p mod 12^pitchDigits, most significant first; with (1,2,"-"):
\* 0 -> do-00, 1 -> do-01, 12 -> do-10, 144 -> re-00.
C5_MixedRadix ==
    Encoded =>
        /\ ret = MixedRadix(arg)
        /\ config = <<1, 2, <<"-">> >> =>
              /\ arg = 0 => ret = <<"d", "o", "-", "0", "0">>
              /\ arg = 1 => ret = <<"d", "o", "-", "0", "1">>
              /\ arg = 12 => ret = <<"d", "o", "-", "1", "0">>
              /\ arg = 144 => ret = <<"r", "e", "-", "0", "0">>

\* C5's case: position 144 was encoded under (1,2,"-")
C5_Witness ==
    /\ Encoded /\ config = <<1, 2, <<"-">> >>
    /\ arg = 144 /\ ret = <<"r", "e", "-", "0", "0">>

\* the identifier is malformed: it does not split into two segments, or a
\* segment has the wrong length, or holds a symbol outside its alphabet
Malformed(id) ==
    LET parts == Split(id, Separator)
    IN  \/ Len(parts) # 2
        \/ Len(parts[1]) # 2 * JustIntonationDigits
        \/ Len(parts[2]) # EqualTemperamentDigits
        \/ \E k \in 1..JustIntonationDigits :
              <<parts[1][2 * k - 1], parts[1][2 * k]>> \notin Range(NoteNames)
        \/ \E k \in 1..EqualTemperamentDigits :
              parts[2][k] \notin Range(PitchSymbols)

\* C6: IDToPosition returns -1 for every malformed identifier; with
\* (1,2,"-"): do00, d-00, do-0, dx-00.
C6_MalformedRejected ==
    op = "IDToPosition" =>
        /\ Malformed(arg) => ret = -1
        /\ (/\ config = <<1, 2, <<"-">> >>
            /\ arg \in {<<"d", "o", "0", "0">>, <<"d", "-", "0", "0">>,
                         <<"d", "o", "-", "0">>, <<"d", "x", "-", "0", "0">>})
              => ret = -1

\* C6's case: dx-00 was decoded under (1,2,"-")
C6_Witness ==
    /\ op = "IDToPosition" /\ config = <<1, 2, <<"-">> >>
    /\ arg = <<"d", "x", "-", "0", "0">> /\ ret = -1

\* C7: PositionToID returns the empty string for every negative position,
\* and with digit counts >= 1 a non-empty string for every non-negative
\* position.
C7_EmptyOnlyOnFailure ==
    op = "PositionToID" =>
        /\ arg < 0 => ret = <<>>
        /\ (arg >= 0 /\ DigitsAtLeastOne) => ret # <<>>

\* C7's case: a negative position was encoded
C7_Witness ==
    op = "PositionToID" /\ DigitsAtLeastOne /\ arg = -1 /\ ret = <<>>

\* C8: both batch operations return the empty sequence on invalid arguments:
\* BatchGenerateIDs when count <= 0, start < 0 or start >= MaxCombinations,
\* BatchGenerateRandomIDs when count <= 0 or count > MaxCombinations.
C8_BatchInvalidEmpty ==
    /\ (/\ op = "BatchGenerateIDs"
        /\ \/ Le64(arg[1], Zero64)
           \/ Lt64(arg[2], Zero64)
           \/ Le64(MaxCombinations, arg[2]))
          => (ret = <<>> /\ ~panic)
    /\ (op = "BatchGenerateRandomIDs" /\ (arg <= 0 \/ arg > maxInt))
          => (ret = <<>> /\ sample = NoSample)

\* C8's case: a batch was asked for from a negative start
C8_Witness ==
    /\ op = "BatchGenerateIDs" /\ DigitsAtLeastOne
    /\ arg = <<FromInt(5), FromInt(-1)>> /\ ret = <<>>

\* the call BatchGenerateIDs(count, start) was valid
ValidBatch ==
    /\ op = "BatchGenerateIDs"
    /\ Lt64(Zero64, arg[1])
    /\ Le64(Zero64, arg[2]) /\ Lt64(arg[2], MaxCombinations)

\* C9 (as claimed): BatchGenerateIDs clamps count: for every count > 0 (any
\* 64-bit value) and every start in [0, MaxCombinations) the result has
\* exactly min(count, MaxCombinations - start) identifiers.
C9_BatchClamp ==
    (ValidBatch /\ DigitsAtLeastOne) =>
        LET room == Sub64(MaxCombinations, arg[2])
        IN  /\ ~panic
            /\ Len(ret) = ToInt(IF Lt64(room, arg[1]) THEN room ELSE arg[1])

\* C10 (as claimed): the i-th identifier (from 0) of a valid sequential batch
\* is PositionToID(start + i), and the identifiers decode through
\* IDToPosition to the consecutive positions start, start+1, ...
C10_BatchOrder ==
    (ValidBatch /\ DigitsAtLeastOne /\ ~panic) =>
        \A i \in 1..Len(ret) :
            /\ ret[i] = PositionToID(ToInt(arg[2]) + i - 1)
            /\ IDToPosition(ret[i]) = ToInt(arg[2]) + i - 1

\* BatchGenerateRandomIDs(count) has returned from a valid call
Sampled ==
    /\ op = "BatchGenerateRandomIDs"
    /\ sample.pc = "idle"
    /\ 1 <= arg /\ arg <= maxInt

\* the elements of a sequence are pairwise distinct
Distinct(seq) ==
    \A i, j \in DOMAIN seq : i # j => seq[i] # seq[j]

\* C11: for every valid count and every outcome of the draws,
\* BatchGenerateRandomIDs(count) returns exactly count identifiers that are
\* pairwise distinct strings, and they decode (IDToPosition) to pairwise
\* distinct positions of [0, MaxCombinations).
C11_RandomBatchUnique ==
    (Sampled /\ DigitsAtLeastOne) =>
        LET positions == [k \in DOMAIN ret |-> IDToPosition(ret[k])]
        IN  /\ Len(ret) = arg
            /\ Distinct(ret)
            /\ Distinct(positions)
            /\ \A k \in DOMAIN ret : InRange(positions[k])

\* what holds of every configuration and separator: count distinct strings
C11_DistinctStrings ==
    Sampled => Len(ret) = arg /\ Distinct(ret)

\* C11 with a separator that no symbol contains
C11_WithDash ==
    (Sampled /\ Separator = <<"-">>) =>
        LET positions == [k \in DOMAIN ret |-> IDToPosition(ret[k])]
        IN  /\ Distinct(positions)
            /\ \A k \in DOMAIN ret : InRange(positions[k])

\* the whole identifier space
AllIDs == {PositionToID(p) : p \in 0..(maxInt - 1)}

\* C12: BatchGenerateRandomIDs(MaxCombinations) takes the Fisher-Yates
\* regime; at every step of the shuffle, and when randomSample returns, the
\* positions are every position of [0, MaxCombinations) exactly once, and the
\* identifiers returned are the whole identifier space, each once.
C12_FullPermutation ==
    /\ (sample.pc # "idle" /\ sample.count = sample.max) =>
          /\ sample.pc = "shuffle"
          /\ Len(sample.positions) = sample.max
          /\ Range(sample.positions) = 0..(sample.max - 1)
    /\ (Sampled /\ arg = maxInt) =>
          /\ Len(ret) = maxInt
          /\ Distinct(ret)
          /\ Range(ret) = AllIDs

\* a full batch over the seven notes that does not start with "do"
C12_Witness ==
    /\ Sampled /\ arg = maxInt /\ maxInt = justIntonationLen
    /\ Len(ret) = justIntonationLen
    /\ ret[1] # PositionToID(0)

\* C13: for digit counts >= 1 and every outcome of the draws, NewID returns
\* an identifier of length 2 x JustIntonationDigits + len(Separator) +
\* EqualTemperamentDigits that equals PositionToID(q) for some position q of
\* [0, MaxCombinations): the melody symbols, the separator, the pitch symbols.
C13_NewIDWellFormed ==
    (op = "NewID" /\ DigitsAtLeastOne) =>
        /\ Len(ret) = 2 * JustIntonationDigits + Len(Separator)
                         + EqualTemperamentDigits
        /\ \E q \in 0..(maxInt - 1) : PositionToID(q) = ret

\* NewID has drawn the last identifier of a space of 1008
C13_Witness ==
    /\ op = "NewID"
    /\ JustIntonationDigits = 1 /\ EqualTemperamentDigits = 2
    /\ ret = <<"t", "i", "-", "b", "b">>

Drawless == {"PositionToID", "IDToPosition", "MaxCombinations",
             "BatchGenerateIDs"}

\* C15: no step of any operation changes the digit counts or the separator
\* (the alphabets and the lookup tables are the constants of this model: no
\* method writes them), and a call of PositionToID, IDToPosition,
\* MaxCombinations or BatchGenerateIDs leaves the random stream cursor
\* unchanged.
C15_OnlyRandMutable ==
    [][/\ config' = config
       /\ (op' # op /\ op' \in Drawless) => rand' = rand]_vars

\* a codec call made after a draw has moved the cursor
C15_Witness ==
    /\ op = "IDToPosition" /\ rand = 1
    /\ DigitsAtLeastOne

\* C16: a step that moves the random stream of one generator leaves the
\* random stream of the other generator unchanged, whatever sequence of
\* NewID and BatchGenerateRandomIDs calls the two generators run.
C16_OwnRandomStream ==
    [][/\ rand' # rand => otherRand' = otherRand
       /\ otherRand' # otherRand => rand' = rand]_vars

\* both generators have drawn, and their cursors differ
C16_Witness ==
    /\ Sampled /\ arg = 2
    /\ rand = 0 /\ otherRand = 1

\* C17: every call of BatchGenerateRandomIDs that has entered randomSample
\* eventually returns: both loops terminate, the rejection loop under the
\* assumption that every position of [0, max) keeps being drawn.
C17_SampleTerminates ==
    (sample.pc # "idle") ~> (sample.pc = "idle")

\* the rejection loop has collected two positions and the call has returned
C17_Witness ==
    /\ Sampled /\ arg = 2 /\ arg < maxInt
    /\ Len(ret) = 2

\* the rejection loop's state is consistent
drawInvariant ==
    /\ Distinct(sample.positions)
    /\ \A k \in DOMAIN sample.positions :
          sample.positions[k] \in 0..(sample.max - 1)
    /\ sample.used = Range(sample.positions)
    /\ Len(sample.positions) <= sample.count

\* C18: in the rejection regime (count < max) every iteration keeps the
\* collected positions pairwise distinct and inside [0, max), the membership
\* set equal to the set of collected positions, and their number at most
\* count; the loop goes on while fewer than count positions are collected
\* and is left exactly when count are.
C18_RejectionLoop ==
    /\ [](sample.pc = "draw" =>
            /\ sample.count < sample.max
            /\ drawInvariant
            /\ (ENABLED DrawStep) <=> Len(sample.positions) < sample.count)
    /\ [][(sample.pc = "draw" /\ sample'.pc # "draw") =>
            Len(sample.positions) = sample.count]_vars

\* two positions of a space of 84 are collected after a rejected draw
C18_Witness ==
    /\ sample.pc = "draw"
    /\ sample.max = justIntonationLen * equalTemperamentLen
    /\ Len(sample.positions) = 2 /\ sample.count = 2
    /\ rand = 1

\* PositionToID has just returned for a position beyond the space
Beyond == op = "PositionToID" /\ arg >= maxInt

\* C19: for every position p >= MaxCombinations, PositionToID(p) is a
\* non-empty identifier equal to PositionToID(p mod MaxCombinations), and
\* IDToPosition of it is p mod MaxCombinations.
C19_OutOfRangeAliases ==
    (Beyond /\ DigitsAtLeastOne) =>
        /\ ret # <<>>
        /\ ret = PositionToID(arg % maxInt)
        /\ IDToPosition(ret) = arg % maxInt

\* what holds of every configuration: the identifier is the one of
\* p mod MaxCombinations
C19_Aliases ==
    Beyond => ret = PositionToID(arg % maxInt)

\* C19 with a separator that no symbol contains
C19_WithDash ==
    (Beyond /\ DigitsAtLeastOne /\ Separator = <<"-">>) =>
        /\ ret # <<>>
        /\ IDToPosition(ret) = arg % maxInt

\* C20: for digit counts >= 1 and every input string s, IDToPosition(s) is
\* -1 or a position p of [0, MaxCombinations) with PositionToID(p) = s.
C20_DecodesOnlyEncoded ==
    (op = "IDToPosition" /\ DigitsAtLeastOne) =>
        \/ ret = -1
        \/ InRange(ret) /\ PositionToID(ret) = arg

\* the last identifier of a space of 84 has been decoded
C20_Witness ==
    /\ op = "IDToPosition"
    /\ JustIntonationDigits = 1 /\ EqualTemperamentDigits = 1
    /\ ret = justIntonationLen * equalTemperamentLen - 1
====
